---------------------------- MODULE Spec2Model ----------------------------
(***************************************************************************)
(* A model of the txn package: the fixed-width record codec (txn.go), the  *)
(* whole-file Writer (NewWriter, NewBatch, Write, Flush, Error) and the    *)
(* line-driven Reader (reader.go).                                         *)
(*                                                                         *)
(* Go strings are TLA+ strings: Len, \o and SubSeq act on them as Go's     *)
(* len, + and s[i:j] do (all text of the model is ASCII, one byte per      *)
(* character).  A decimal.Decimal is an integer number of thousandths      *)
(* ("mills"), so that the two-digit rendering StringFixedBank(2) really    *)
(* rounds.  A time.Time is a record [y, m, d, h]: the calendar day and the *)
(* hour of the day, which the layout "20060102" does not render.           *)
(* Numbers stay within TLC's integers, so amounts are below 2^31 mills.    *)
(***************************************************************************)
EXTENDS Integers, Sequences, FiniteSets, TLC

-----------------------------------------------------------------------------
(* Bounds of the model.                                                    *)

\* the most batches and records, counted together, a Writer holds
MaxSize == 3
\* the most Write calls made on one Writer
MaxWrites == 2

-----------------------------------------------------------------------------
(* Text primitives: strings, strconv, fmt.                                 *)

Digit == "0123456789"

DigitSet == {"0", "1", "2", "3", "4", "5", "6", "7", "8", "9"}

WhiteSpace == {" ", "\t", "\n", "\r"}

\* s[i] of Go, i counted from 1
Char(s, i) == SubSeq(s, i, i)

DigitVal(c) == CHOOSE d \in 0..9 : Char(Digit, d + 1) = c

AllDigits(s) == \A i \in 1..Len(s) : Char(s, i) \in DigitSet

\* the value of the first n characters of a string of digits
RECURSIVE DigitsValTo(_, _)
DigitsValTo(s, n) ==
    IF n = 0 THEN 0 ELSE 10 * DigitsValTo(s, n - 1) + DigitVal(Char(s, n))

\* the value of a string of digits
DigitsVal(s) == DigitsValTo(s, Len(s))

\* the decimal digits of a natural number
RECURSIVE Itoa(_)
Itoa(n) ==
    IF n < 10 THEN Char(Digit, n + 1)
    ELSE Itoa(n \div 10) \o Char(Digit, (n % 10) + 1)

Abs(n) == IF n < 0 THEN -n ELSE n

\* F of v, v being worked out once however often F looks at it
Once(v, F(_)) == CHOOSE out \in {F(x) : x \in {v}} : TRUE

\* n copies of the one-character string c
RECURSIVE Repeat(_, _)
Repeat(c, n) ==
    IF n <= 0 THEN ""
    ELSE IF n = 1 THEN c
    ELSE LET half == Repeat(c, n \div 2)
         IN  half \o half \o (IF n % 2 = 1 THEN c ELSE "")

\* padRight: append pad until the string is longer than length, then cut
\* (eight turns of the loop are taken at once while they stay within length)
RECURSIVE padRight(_, _, _)
padRight(str, pad, length) ==
    LET s  == str \o pad
        s8 == s \o pad \o pad \o pad \o pad \o pad \o pad \o pad
    IN  IF Len(s8) <= length THEN padRight(s8, pad, length)
        ELSE IF Len(s) > length THEN SubSeq(s, 1, length)
        ELSE padRight(s, pad, length)

spaces(howMany) == padRight("", " ", howMany)

\* strings.TrimSpace: s from its first to its last character that is not
\* white space
TrimSpace(s) ==
    LET keep == {i \in 1..Len(s) : Char(s, i) \notin WhiteSpace}
    IN  IF keep = {} THEN ""
        ELSE SubSeq(s, CHOOSE i \in keep : \A j \in keep : i <= j,
                       CHOOSE i \in keep : \A j \in keep : i >= j)

\* the variant that takes hi for the last index of the slice
SliceThrough(l, lo, hi) == SubSeq(l, lo + 1, hi + 1)

\* Go's l[lo:hi] (lo inclusive, hi exclusive, counted from 0)
Slice(l, lo, hi) == SubSeq(l, lo + 1, hi)

\* strconv.Atoi with its error dropped: 0 unless s is an optionally signed
\* string of digits
Atoi(s) ==
    LET signed == Len(s) > 0 /\ Char(s, 1) \in {"+", "-"}
        body   == IF signed THEN SubSeq(s, 2, Len(s)) ELSE s
    IN  IF Len(body) = 0 \/ ~AllDigits(body) THEN 0
        ELSE IF signed /\ Char(s, 1) = "-" THEN -DigitsVal(body) ELSE DigitsVal(body)

\* fmt's %s with a width and a precision (prec < 0: none): the string is cut to
\* prec characters, then padded to width, on the right when minus is set,
\* else on the left, with zeros when the 0 flag is set
FmtS(s, width, prec, minus, zero) ==
    LET t == IF prec >= 0 /\ Len(s) > prec THEN SubSeq(s, 1, prec) ELSE s
        n == width - Len(t)
    IN  IF n <= 0 THEN t
        ELSE IF minus THEN t \o Repeat(" ", n)
        ELSE Repeat(IF zero THEN "0" ELSE " ", n) \o t

\* fmt's %d with a width and a precision: at least prec digits, a sign, then
\* blank padding to width (the 0 flag is ignored when a precision is given)
FmtD(n, width, prec, minus) ==
    LET d == Itoa(Abs(n))
        z == Repeat("0", prec - Len(d)) \o d
        t == IF n < 0 THEN "-" \o z ELSE z
        k == width - Len(t)
    IN  IF k <= 0 THEN t
        ELSE IF minus THEN t \o Repeat(" ", k) ELSE Repeat(" ", k) \o t

-----------------------------------------------------------------------------
(* decimal.Decimal, in mills.                                              *)

\* RoundBank(2): the nearest cent, a tie going to the even cent
RoundBankCents(m) ==
    LET a == Abs(m)
        q == a \div 10
        r == a % 10
        c == IF r > 5 \/ (r = 5 /\ q % 2 = 1) THEN q + 1 ELSE q
    IN  IF m < 0 THEN -c ELSE c

\* Decimal.StringFixedBank(2)
StringFixedBank(m) ==
    LET c == RoundBankCents(m)
        a == Abs(c)
    IN  (IF c < 0 THEN "-" ELSE "") \o Itoa(a \div 100) \o "."
            \o Char(Digit, ((a \div 10) % 10) + 1) \o Char(Digit, (a % 10) + 1)

\* the position of the first "." of s, 0 when there is none
RECURSIVE DotAt(_, _)
DotAt(s, i) ==
    IF i > Len(s) THEN 0 ELSE IF Char(s, i) = "." THEN i ELSE DotAt(s, i + 1)

\* decimal.NewFromString with its error dropped: the zero Decimal unless s is
\* an optionally signed number with at most three fraction digits
NewFromString(s) ==
    LET signed == Len(s) > 0 /\ Char(s, 1) \in {"+", "-"}
        body   == IF signed THEN SubSeq(s, 2, Len(s)) ELSE s
        dot    == DotAt(body, 1)
        int    == IF dot = 0 THEN body ELSE SubSeq(body, 1, dot - 1)
        frac   == IF dot = 0 THEN "" ELSE SubSeq(body, dot + 1, Len(body))
        ok     == /\ Len(int) + Len(frac) > 0
                  /\ AllDigits(int) /\ AllDigits(frac) /\ Len(frac) <= 3
        mills  == DigitsVal(int) * 1000 + DigitsVal(frac \o Repeat("0", 3 - Len(frac)))
    IN  IF ~ok THEN 0
        ELSE IF signed /\ Char(s, 1) = "-" THEN -mills ELSE mills

-----------------------------------------------------------------------------
(* time.Time at the layout "20060102".                                     *)

\* the zero time.Time, which a failed time.Parse returns
ZeroTime == [y |-> 1, m |-> 1, d |-> 1, h |-> 0]

DaysIn(y, m) ==
    IF m \in {4, 6, 9, 11} THEN 30
    ELSE IF m = 2
         THEN (IF (y % 4 = 0 /\ y % 100 # 0) \/ y % 400 = 0 THEN 29 ELSE 28)
         ELSE 31

\* Time.Format("20060102")
FormatDate(t) == FmtD(t.y, 0, 4, FALSE) \o FmtD(t.m, 0, 2, FALSE) \o FmtD(t.d, 0, 2, FALSE)

\* time.Parse("20060102", s) with its error dropped
ParseDate(s) ==
    IF Len(s) # 8 \/ ~AllDigits(s) THEN ZeroTime
    ELSE LET y == DigitsVal(SubSeq(s, 1, 4))
             m == DigitsVal(SubSeq(s, 5, 6))
             d == DigitsVal(SubSeq(s, 7, 8))
         IN  IF m \in 1..12 /\ d >= 1 /\ d <= DaysIn(y, m)
             THEN [y |-> y, m |-> m, d |-> d, h |-> 0]
             ELSE ZeroTime

-----------------------------------------------------------------------------
(* The record codec of txn.go.                                             *)

Debit == "DR"
Credit == "CR"
BatchTXN == "ST"
BatchPAY == "SP"

NoError == "nil"
ErrInsufficientBatches == "txn: Not enough batches (minimum 1 required)"
ErrInvalidRecord == "txn: Invalid Record can't be written"
ErrBadFileHeader == "txn: Bad File Header prevented reading"
ErrBadBatchHeader == "txn: Bad Batch Header prevented reading"
ErrBadRecord == "txn: Bad Record prevented reading"
ErrBadBatchTrailer == "txn: Bad Batch Trailer prevented reading"
ErrBadFileTrailer == "txn: Bad File Trailer prevented reading"
ErrUnexpectedRecordType == "txn: Unexpected record type, can decode 0,1 and 7 only"

\* the zero values of the five structs
ZeroFileHeader ==
    [recordType |-> 0, CustomerNumber |-> "", CustomerName |-> "", RemitterName |-> "",
     FileCreated |-> ZeroTime, ProcessingDate |-> ZeroTime, Description |-> ""]

ZeroBatchHeader ==
    [recordType |-> 0, BSBNumber |-> "", AccountNumber |-> "", AccountName |-> "",
     TransactionDate |-> ZeroTime, Amount |-> 0, Indicator |-> ""]

ZeroRecord ==
    [recordType |-> 0, BSBNumber |-> "", AccountNumber |-> "", AccountName |-> "",
     TransactionDate |-> ZeroTime, Amount |-> 0, Indicator |-> "",
     TransactionCode |-> "", Description |-> "", ReferenceNumber |-> 0,
     SecondaryReferenceNumber |-> "", ChequeNumber |-> ""]

ZeroFileTrailer ==
    [recordType |-> 0, CustomerNumber |-> "", CustomerName |-> "",
     TotalDebitTransactions |-> 0, TotalCreditTransactions |-> 0,
     TotalDebitAmount |-> 0, TotalCreditAmount |-> 0]

ZeroBatchTrailer ==
    [recordType |-> 0, BSBNumber |-> "", AccountNumber |-> "", AccountName |-> "",
     TransactionDate |-> ZeroTime, Amount |-> 0, Indicator |-> "", BatchType |-> "",
     ReferenceNumber |-> 0, TotalDebitTransactions |-> 0, TotalCreditTransactions |-> 0,
     TotalDebitAmount |-> 0, TotalCreditAmount |-> 0]

ZeroBatch ==
    [BatchHeader |-> ZeroBatchHeader, Records |-> <<>>, BatchTrailer |-> ZeroBatchTrailer]

\* bsbNumberRegEx: ^\d{3}-\d{3}$
bsbNumberRegEx(s) ==
    /\ Len(s) = 7
    /\ AllDigits(SubSeq(s, 1, 3))
    /\ Char(s, 4) = "-"
    /\ AllDigits(SubSeq(s, 5, 7))

\* IsValid without the BSB check
IsValidIndicatorOnly(r) == r.Indicator \in {Credit, Debit}

\* IsValid without the Indicator check
IsValidBSBOnly(r) == bsbNumberRegEx(r.BSBNumber)

\* Record.IsValid
IsValid(r) ==
    IF r.Indicator \in {Credit, Debit} THEN bsbNumberRegEx(r.BSBNumber) ELSE FALSE

\* the variant that turns away the lines that are too short only
TooShort(l, lf, crlf) == Len(l) < lf

\* len(l) != lf && len(l) != crlf, the test every Read starts with
WrongLength(l, lf, crlf) == Len(l) # lf /\ Len(l) # crlf

\* FileHeader.Read
FileHeaderRead(h, l) ==
    IF WrongLength(l, 171, 172)
    THEN [err |-> ErrBadFileHeader, v |-> h]
    ELSE [err |-> NoError,
          v |-> [recordType     |-> Atoi(TrimSpace(Slice(l, 0, 1))),
                 CustomerNumber |-> TrimSpace(Slice(l, 1, 10)),
                 CustomerName   |-> TrimSpace(Slice(l, 10, 45)),
                 RemitterName   |-> TrimSpace(Slice(l, 45, 64)),
                 FileCreated    |-> ParseDate(TrimSpace(Slice(l, 64, 72))),
                 ProcessingDate |-> ParseDate(TrimSpace(Slice(l, 72, 80))),
                 Description    |-> TrimSpace(Slice(l, 80, 100))]]

\* BatchHeader.Read (the record type of the receiver is left alone)
BatchHeaderRead(h, l) ==
    IF WrongLength(l, 171, 172)
    THEN [err |-> ErrBadBatchHeader, v |-> h]
    ELSE [err |-> NoError,
          v |-> [recordType      |-> h.recordType,
                 BSBNumber       |-> TrimSpace(Slice(l, 1, 8)),
                 AccountNumber   |-> TrimSpace(Slice(l, 8, 17)),
                 AccountName     |-> TrimSpace(Slice(l, 17, 52)),
                 TransactionDate |-> ParseDate(TrimSpace(Slice(l, 52, 60))),
                 Amount          |-> NewFromString(TrimSpace(Slice(l, 60, 76))),
                 Indicator       |-> TrimSpace(Slice(l, 76, 78))]]

\* the fields Record.Read unpacks from a well-sized line
RecordUnpack(l) ==
    [recordType               |-> Atoi(TrimSpace(Slice(l, 0, 1))),
     BSBNumber                |-> TrimSpace(Slice(l, 1, 8)),
     AccountNumber            |-> TrimSpace(Slice(l, 8, 17)),
     AccountName              |-> TrimSpace(Slice(l, 17, 52)),
     TransactionDate          |-> ParseDate(TrimSpace(Slice(l, 52, 60))),
     Amount                   |-> NewFromString(TrimSpace(Slice(l, 60, 76))),
     Indicator                |-> TrimSpace(Slice(l, 76, 78)),
     TransactionCode          |-> TrimSpace(Slice(l, 78, 80)),
     Description              |-> TrimSpace(Slice(l, 80, 120)),
     ReferenceNumber          |-> Atoi(TrimSpace(Slice(l, 120, 130))),
     SecondaryReferenceNumber |-> TrimSpace(Slice(l, 130, 140)),
     ChequeNumber             |-> TrimSpace(Slice(l, 140, 148))]

\* Record.Read
RecordRead(r, l) ==
    IF WrongLength(l, 169, 170)
    THEN [err |-> ErrBadRecord, v |-> r]
    ELSE LET u == RecordUnpack(l)
         IN  [err |-> IF ~IsValid(u) THEN ErrInvalidRecord ELSE NoError, v |-> u]

\* FileTrailer.Read
FileTrailerRead(t, l) ==
    IF WrongLength(l, 171, 172)
    THEN [err |-> ErrBadFileTrailer, v |-> t]
    ELSE [err |-> NoError,
          v |-> [recordType              |-> Atoi(TrimSpace(Slice(l, 0, 1))),
                 CustomerNumber          |-> TrimSpace(Slice(l, 1, 9)),
                 CustomerName            |-> TrimSpace(Slice(l, 9, 44)),
                 TotalDebitTransactions  |-> Atoi(TrimSpace(Slice(l, 44, 50))),
                 TotalCreditTransactions |-> Atoi(TrimSpace(Slice(l, 50, 56))),
                 TotalDebitAmount        |-> NewFromString(TrimSpace(Slice(l, 56, 72))),
                 TotalCreditAmount       |-> NewFromString(TrimSpace(Slice(l, 72, 88)))]]

\* BatchTrailer.Read
BatchTrailerRead(t, l) ==
    IF WrongLength(l, 171, 172)
    THEN [err |-> ErrBadBatchTrailer, v |-> t]
    ELSE [err |-> NoError,
          v |-> [recordType              |-> Atoi(TrimSpace(Slice(l, 0, 1))),
                 BSBNumber               |-> TrimSpace(Slice(l, 1, 8)),
                 AccountNumber           |-> TrimSpace(Slice(l, 8, 17)),
                 AccountName             |-> TrimSpace(Slice(l, 17, 52)),
                 TransactionDate         |-> ParseDate(TrimSpace(Slice(l, 52, 60))),
                 Amount                  |-> NewFromString(TrimSpace(Slice(l, 60, 76))),
                 Indicator               |-> TrimSpace(Slice(l, 76, 78)),
                 BatchType               |-> TrimSpace(Slice(l, 78, 80)),
                 ReferenceNumber         |-> Atoi(TrimSpace(Slice(l, 80, 86))),
                 TotalDebitTransactions  |-> Atoi(TrimSpace(Slice(l, 86, 92))),
                 TotalCreditTransactions |-> Atoi(TrimSpace(Slice(l, 92, 98))),
                 TotalDebitAmount        |-> NewFromString(TrimSpace(Slice(l, 98, 114))),
                 TotalCreditAmount       |-> NewFromString(TrimSpace(Slice(l, 114, 130)))]]

\* BatchTrailer.Write: the line it hands to the io.Writer
BatchTrailerWrite(t) ==
    padRight(FmtD(t.recordType, 0, 1, FALSE)
             \o FmtS(t.BSBNumber, 7, 7, FALSE, FALSE)
             \o FmtS(t.AccountNumber, 9, 9, FALSE, FALSE)
             \o FmtS(t.AccountName, 35, 35, TRUE, FALSE)
             \o FmtS(FormatDate(t.TransactionDate), 8, 8, FALSE, FALSE)
             \o FmtS(StringFixedBank(t.Amount), 16, 16, FALSE, FALSE)
             \o FmtS(t.Indicator, 2, -1, FALSE, FALSE)
             \o FmtS(t.BatchType, 2, -1, FALSE, FALSE)
             \o FmtD(t.ReferenceNumber, 6, 6, FALSE)
             \o FmtD(t.TotalDebitTransactions, 6, 1, FALSE)
             \o FmtD(t.TotalCreditTransactions, 6, 1, FALSE)
             \o FmtS(StringFixedBank(t.TotalDebitAmount), 16, 16, FALSE, FALSE)
             \o FmtS(StringFixedBank(t.TotalCreditAmount), 16, 16, FALSE, FALSE)
             \o spaces(40),
             " ", 170)

\* FileTrailer.Write
FileTrailerWrite(t) ==
    padRight(FmtD(t.recordType, 0, 1, FALSE)
             \o FmtS(t.CustomerNumber, 8, 8, FALSE, TRUE)
             \o FmtS(t.CustomerName, 35, 35, TRUE, FALSE)
             \o FmtD(t.TotalDebitTransactions, 6, 1, TRUE)
             \o FmtD(t.TotalCreditTransactions, 6, 1, TRUE)
             \o FmtS(StringFixedBank(t.TotalDebitAmount), 16, 16, TRUE, FALSE)
             \o FmtS(StringFixedBank(t.TotalCreditAmount), 16, 16, TRUE, FALSE)
             \o spaces(82),
             " ", 170)

\* FileHeader.Write
FileHeaderWrite(h) ==
    padRight(FmtD(h.recordType, 0, 1, FALSE)
             \o FmtS(h.CustomerNumber, 8, 8, FALSE, TRUE)
             \o FmtS(h.CustomerName, 35, 35, TRUE, FALSE)
             \o FmtS(h.RemitterName, 20, 20, TRUE, FALSE)
             \o FmtS(FormatDate(h.FileCreated), 8, 8, FALSE, FALSE)
             \o FmtS(FormatDate(h.ProcessingDate), 8, 8, FALSE, FALSE)
             \o FmtS(h.Description, 20, 20, FALSE, FALSE)
             \o spaces(70),
             " ", 170)

\* BatchHeader.Write
BatchHeaderWrite(h) ==
    padRight("1"
             \o FmtS(h.BSBNumber, 7, 7, TRUE, FALSE)
             \o FmtS(h.AccountNumber, 9, 9, TRUE, FALSE)
             \o FmtS(h.AccountName, 35, 35, TRUE, FALSE)
             \o FmtS(FormatDate(h.TransactionDate), 8, 8, FALSE, FALSE)
             \o FmtS(StringFixedBank(h.Amount), 16, 16, FALSE, FALSE)
             \o FmtS(h.Indicator, 2, 2, FALSE, FALSE)
             \o spaces(92),
             " ", 170)

\* Record.Write
RecordWrite(r) ==
    padRight("2"
             \o FmtS(r.BSBNumber, 7, 7, FALSE, FALSE)
             \o FmtS(r.AccountNumber, 9, 9, FALSE, FALSE)
             \o FmtS(r.AccountName, 35, 35, TRUE, FALSE)
             \o FmtS(FormatDate(r.TransactionDate), 8, 8, FALSE, FALSE)
             \o FmtS(StringFixedBank(r.Amount), 16, 16, FALSE, FALSE)
             \o FmtS(r.Indicator, 2, 2, FALSE, FALSE)
             \o FmtS(r.TransactionCode, 2, 2, FALSE, FALSE)
             \o FmtS(r.Description, 40, 40, TRUE, FALSE)
             \o FmtD(r.ReferenceNumber, 10, 1, TRUE)
             \o FmtS(r.SecondaryReferenceNumber, 10, 10, TRUE, FALSE)
             \o FmtS(r.ChequeNumber, 8, 8, TRUE, FALSE)
             \o spaces(20),
             " ", 168)

-----------------------------------------------------------------------------
(* bufio.Writer, as the Writer uses it.  A buffered writer is a record     *)
(* [buf, err, sink]: the bytes buffered, the sticky error, and the bytes   *)
(* the underlying io.Writer has received.  down says that the underlying   *)
(* io.Writer fails every write (accepting no byte).                        *)

\* the size of the buffer of bufio.NewWriter
DefaultBufSize == 4096

\* the error of a failing underlying io.Writer
ErrSink == "write error"

\* bufio.Writer.Flush
BufFlush(b, down) ==
    IF b.err # NoError \/ Len(b.buf) = 0 THEN b
    ELSE IF down THEN [b EXCEPT !.err = ErrSink]
    ELSE [b EXCEPT !.buf = "", !.sink = b.sink \o b.buf]

\* bufio.Writer.Write(p)
RECURSIVE BufWrite(_, _, _)
BufWrite(b, p, down) ==
    IF b.err # NoError THEN b
    ELSE LET avail == DefaultBufSize - Len(b.buf)
         IN  IF Len(p) <= avail THEN [b EXCEPT !.buf = b.buf \o p]
             ELSE IF Len(b.buf) = 0
                  THEN \* a large write goes straight to the underlying writer
                       IF down THEN [b EXCEPT !.err = ErrSink]
                       ELSE [b EXCEPT !.sink = b.sink \o p]
                  ELSE BufWrite(BufFlush([b EXCEPT !.buf = b.buf \o SubSeq(p, 1, avail)], down),
                                SubSeq(p, avail + 1, Len(p)), down)

\* the writes of one Writer.Write call, in order
RECURSIVE BufWriteAll(_, _, _)
BufWriteAll(b, chunks, down) ==
    IF Len(chunks) = 0 THEN b
    ELSE Once(BufWrite(b, Head(chunks), down),
              LAMBDA b1 : BufWriteAll(b1, Tail(chunks), down))

-----------------------------------------------------------------------------
(* The Writer.                                                             *)

\* time.Now(), whenever the code asks for it
Now == [y |-> 2017, m |-> 1, d |-> 23, h |-> 14]

\* NewBatch
NewBatch ==
    [BatchHeader  |-> [ZeroBatchHeader EXCEPT !.recordType = 1, !.TransactionDate = Now],
     Records      |-> <<>>,
     BatchTrailer |-> [ZeroBatchTrailer EXCEPT !.recordType = 7, !.TransactionDate = Now,
                                               !.BatchType = BatchPAY]]

\* NewWriter: the exported fields of the Writer it returns
NewWriter ==
    [OmitBatchTotals |-> FALSE,
     CRLFLineEndings |-> FALSE,
     FileHeader      |-> [ZeroFileHeader EXCEPT !.recordType = 0, !.FileCreated = Now,
                                                !.ProcessingDate = Now,
                                                !.Description = "ACCOUNT TRANSACTIONS"],
     Batch           |-> <<NewBatch>>,
     FileTrailer     |-> [ZeroFileTrailer EXCEPT !.recordType = 9]]

\* the bufio.Writer of NewWriter
NewBufWriter == [buf |-> "", err |-> NoError, sink |-> ""]

\* the variant that never writes the "\r"
EmitLineLF(line, crlf) == <<line, "\n">>

\* the writes that put one line and its terminator into w.wr
EmitLine(line, crlf) == <<line>> \o (IF crlf THEN <<"\r">> ELSE <<>>) \o <<"\n">>

\* fmt.Errorf("%v (record %d)", ErrInvalidRecord, i)
InvalidRecordError(i) == ErrInvalidRecord \o " (record " \o Itoa(i) \o ")"

\* the state of the loop over the records of one batch: the file trailer, the
\* four batch counters, the writes made so far and the error returned, if any
\* (lines 96-112: the totals one record adds)
TallyIgnoringOmit(omit, r, a) ==
    IF r.Indicator = Debit
    THEN [a EXCEPT !.ft.TotalDebitAmount = @ + r.Amount,
                   !.ft.TotalDebitTransactions = @ + 1,
                   !.batchDebitCounter = @ + 1,
                   !.batchDebitTx = @ + r.Amount]
    ELSE IF r.Indicator = Credit
    THEN [a EXCEPT !.ft.TotalCreditAmount = @ + r.Amount,
                   !.ft.TotalCreditTransactions = @ + 1,
                   !.batchCreditCounter = @ + 1,
                   !.batchCreditTx = @ + r.Amount]
    ELSE a

\* the variant that keeps the batch counters and leaves the file trailer alone
TallyBatchOnly(omit, r, a) ==
    IF omit THEN a
    ELSE IF r.Indicator = Debit
    THEN [a EXCEPT !.batchDebitCounter = @ + 1, !.batchDebitTx = @ + r.Amount]
    ELSE IF r.Indicator = Credit
    THEN [a EXCEPT !.batchCreditCounter = @ + 1, !.batchCreditTx = @ + r.Amount]
    ELSE a

\* the totals one record adds (lines 96-112)
Tally(omit, r, a) ==
    IF omit THEN a
    ELSE IF r.Indicator = Debit
    THEN [a EXCEPT !.ft.TotalDebitAmount = @ + r.Amount,
                   !.ft.TotalDebitTransactions = @ + 1,
                   !.batchDebitCounter = @ + 1,
                   !.batchDebitTx = @ + r.Amount]
    ELSE IF r.Indicator = Credit
    THEN [a EXCEPT !.ft.TotalCreditAmount = @ + r.Amount,
                   !.ft.TotalCreditTransactions = @ + 1,
                   !.batchCreditCounter = @ + 1,
                   !.batchCreditTx = @ + r.Amount]
    ELSE a

\* the loop over batch.Records (lines 91-120), from record i (counted from 1)
RECURSIVE WriteRecords(_, _, _, _, _)
WriteRecords(omit, crlf, records, i, a) ==
    IF i > Len(records) THEN a
    ELSE LET r == records[i]
         IN  IF ~IsValid(r)
             THEN [a EXCEPT !.err = InvalidRecordError(i - 1)]
             ELSE WriteRecords(omit, crlf, records, i + 1,
                               [Tally(omit, r, a) EXCEPT
                                   !.chunks = @ \o EmitLine(RecordWrite(r), crlf)])

\* the batch trailer Write sets on its copy of batch k (counted from 0) once
\* the records are through (lines 121-137)
TrailerOf(batch, k, a) ==
    LET batchAmount == a.batchCreditTx - a.batchDebitTx
    IN  [batch.BatchTrailer EXCEPT
            !.BSBNumber = batch.BatchHeader.BSBNumber,
            !.AccountNumber = batch.BatchHeader.AccountNumber,
            !.AccountName = batch.BatchHeader.AccountName,
            !.TransactionDate = Now,
            !.Amount = Abs(batchAmount),
            !.Indicator = IF batchAmount < 0 THEN "DR" ELSE "CR",
            !.BatchType = BatchTXN,
            !.ReferenceNumber = k,
            !.TotalDebitTransactions = a.batchDebitCounter,
            !.TotalCreditTransactions = a.batchCreditCounter,
            !.TotalDebitAmount = a.batchDebitTx,
            !.TotalCreditAmount = a.batchCreditTx]

\* the variant that lets the counters run on from one batch to the next
StaleCounters(a) == a

\* the batch counters as a batch starts (lines 85-88)
FreshCounters(a) ==
    [a EXCEPT !.batchDebitCounter = 0, !.batchCreditCounter = 0,
              !.batchDebitTx = 0, !.batchCreditTx = 0]

\* the variant that sets the trailer on the element of w.Batch itself
TrailerInPlace(batches, k, tr) == [batches EXCEPT ![k].BatchTrailer = tr]

\* w.Batch once the trailer is set on batch, the copy of element k (counted
\* from 1) that range made (line 80): the element itself is not assigned
TrailerOnCopy(batches, k, tr) == batches

\* the loop over w.Batch (lines 80-144), from batch k (counted from 1)
RECURSIVE WriteBatches(_, _, _)
WriteBatches(wtr, k, a) ==
    IF k > Len(wtr.Batch) THEN a
    ELSE LET batch == wtr.Batch[k]
             a1 == [FreshCounters(a) EXCEPT
                       !.chunks = @ \o EmitLine(BatchHeaderWrite(batch.BatchHeader),
                                                wtr.CRLFLineEndings)]
         IN  Once(WriteRecords(wtr.OmitBatchTotals, wtr.CRLFLineEndings,
                               batch.Records, 1, a1),
                  LAMBDA a2 :
                      IF a2.err # NoError THEN a2
                      ELSE Once(TrailerOf(batch, k - 1, a2),
                                LAMBDA tr :
                                    WriteBatches(wtr, k + 1,
                                        [a2 EXCEPT
                                            !.Batch = TrailerOnCopy(@, k, tr),
                                            !.trailers = Append(@, tr),
                                            !.chunks = @ \o EmitLine(BatchTrailerWrite(tr),
                                                                     wtr.CRLFLineEndings)])))

\* the variant that lets a Writer with no batch through
AnyBatchCount(wtr) == FALSE

\* the condition Write gives up on before it writes anything (line 70)
InsufficientBatches(wtr) == Len(wtr.Batch) < 1

\* Writer.Write: the error it returns, the writes it makes into w.wr, the file
\* trailer it leaves in *w.FileTrailer, the batches it leaves in w.Batch and
\* the batch trailers it encoded
WriterWrite(wtr) ==
    IF InsufficientBatches(wtr)
    THEN [err |-> ErrInsufficientBatches, chunks |-> <<>>, ft |-> wtr.FileTrailer,
          Batch |-> wtr.Batch, trailers |-> <<>>]
    ELSE LET a0 == [ft |-> wtr.FileTrailer, Batch |-> wtr.Batch, err |-> NoError,
                    trailers |-> <<>>,
                    chunks |-> EmitLine(FileHeaderWrite(wtr.FileHeader),
                                        wtr.CRLFLineEndings),
                    batchDebitCounter |-> 0, batchCreditCounter |-> 0,
                    batchDebitTx |-> 0, batchCreditTx |-> 0]
         IN  Once(WriteBatches(wtr, 1, a0),
                  LAMBDA a :
                      IF a.err # NoError
                      THEN [err |-> a.err, chunks |-> a.chunks, ft |-> a.ft,
                            Batch |-> a.Batch, trailers |-> a.trailers]
                      ELSE [err |-> NoError,
                            chunks |-> a.chunks \o EmitLine(FileTrailerWrite(a.ft),
                                                            wtr.CRLFLineEndings),
                            ft |-> a.ft, Batch |-> a.Batch, trailers |-> a.trailers])

-----------------------------------------------------------------------------
(* The Reader.                                                             *)

\* what a run that indexes r.Batch[len(r.Batch)-1] of an empty r.Batch ends in
PanicIndexOutOfRange == "panic: runtime error: index out of range [-1]"

\* NewReader: the exported fields of the Reader it returns
NewReader ==
    [FileHeader |-> ZeroFileHeader, Batch |-> <<>>, FileTrailer |-> ZeroFileTrailer]

\* the variant that takes a line to be 171 bytes, as it is when it ends in "\n"
LineLenLF(input) == IF Len(input) < 171 THEN Len(input) ELSE 171

\* the length of the line bufio.Reader.ReadString('\n') returns from input: up
\* to and with the first "\n", all of it when there is none
LineLen(input) ==
    CHOOSE n \in 1..Len(input) :
        /\ n = Len(input) \/ Char(input, n) = "\n"
        /\ \A j \in 1..(n - 1) : Char(input, j) # "\n"

\* the variant in which the last batch is always there
NeverOutOfRange(r) == FALSE

\* r.Batch[len(r.Batch)-1] is indexed while r.Batch holds no batch
OutOfRange(r) == Len(r.Batch) = 0

\* the switch of readRecordOrHeaderOrTrailer on the first byte b of line:
\* the Reader it leaves and the error it returns
Dispatch(r, b, line) ==
    IF b = "0"
    THEN LET got == FileHeaderRead(r.FileHeader, line)
         IN  [r |-> [r EXCEPT !.FileHeader = got.v], err |-> got.err]
    ELSE IF b = "1"
    THEN LET got == BatchHeaderRead(ZeroBatchHeader, line)
         IN  IF got.err = NoError
             THEN [r |-> [r EXCEPT !.Batch = Append(@, [ZeroBatch EXCEPT
                                                          !.BatchHeader = got.v])],
                   err |-> NoError]
             ELSE [r |-> r, err |-> got.err]
    ELSE IF b = "2"
    THEN LET got == RecordRead(ZeroRecord, line)
         IN  IF got.err # NoError THEN [r |-> r, err |-> got.err]
             ELSE IF ~IsValid(got.v) THEN [r |-> r, err |-> ErrInvalidRecord]
             ELSE IF OutOfRange(r) THEN [r |-> r, err |-> PanicIndexOutOfRange]
             ELSE [r |-> [r EXCEPT !.Batch[Len(r.Batch)].Records = Append(@, got.v)],
                   err |-> NoError]
    ELSE IF b = "7"
    THEN LET got == BatchTrailerRead(ZeroBatchTrailer, line)
         IN  IF got.err # NoError THEN [r |-> r, err |-> got.err]
             ELSE IF OutOfRange(r) THEN [r |-> r, err |-> PanicIndexOutOfRange]
             ELSE [r |-> [r EXCEPT !.Batch[Len(r.Batch)].BatchTrailer = got.v],
                   err |-> NoError]
    ELSE IF b = "9"
    THEN LET got == FileTrailerRead(r.FileTrailer, line)
         IN  [r |-> [r EXCEPT !.FileTrailer = got.v], err |-> got.err]
    ELSE [r |-> r, err |-> ErrUnexpectedRecordType]

\* Reader.ReadAll over the bytes input: the Reader it leaves, the error it
\* returns (io.EOF ends it with nil) and the bytes it has not consumed
RECURSIVE ReadAll(_, _)
ReadAll(r, input) ==
    IF Len(input) = 0 THEN [r |-> r, err |-> NoError, rest |-> ""]
    ELSE Once(LineLen(input),
              LAMBDA n :
                  Once(SubSeq(input, n + 1, Len(input)),
                       LAMBDA rest :
                           Once(Dispatch(r, Char(input, 1), SubSeq(input, 1, n)),
                                LAMBDA got :
                                    IF got.err # NoError
                                    THEN [r |-> got.r, err |-> got.err, rest |-> rest]
                                    ELSE ReadAll(got.r, rest))))

-----------------------------------------------------------------------------
(* The program as a state machine.                                         *)

VARIABLES
    w,      \* the exported fields of the Writer (FileTrailer is *w.FileTrailer)
    wr,     \* w.wr, the bufio.Writer, with the bytes its io.Writer received
    down,   \* whether the underlying io.Writer fails its writes
    pc,     \* "build" until the first Write call, then "run"
    writes, \* the number of Write calls made
    last,   \* the last call made: its name, what it returned, what it met
    rd,     \* the Reader run over the bytes the io.Writer received
    codec   \* one value of the codec: the line written of it, what Read made of it

vars == <<w, wr, down, pc, writes, last, rd, codec>>

\* what a call that returns nothing returns
NoResult == "none"

\* no call made yet
NoCall ==
    [op |-> "none", err |-> NoError, pre |-> NewWriter, wrBefore |-> NewBufWriter,
     chunks |-> <<>>, trailers |-> <<>>]

\* no Reader made yet
NoReader == [r |-> NewReader, err |-> NoError, rest |-> "", ran |-> FALSE]

\* nothing written or read yet
NoCodec ==
    [kind |-> "none", val |-> ZeroFileHeader, term |-> "", line |-> "", resized |-> FALSE,
     read |-> "none", recv |-> ZeroFileHeader, err |-> NoError, got |-> ZeroFileHeader]

\* the records callers put into batches
DemoRecord ==
    [ZeroRecord EXCEPT !.AccountNumber = "123456789", !.BSBNumber = "182-222",
                       !.AccountName = "DEMO ACCOUNT NUMBER 2", !.TransactionDate = Now,
                       !.Description = "TEST TRANS        SIMPSON DESERT O"]

RecDebit ==
    [DemoRecord EXCEPT !.Indicator = Debit, !.TransactionCode = "13",
                       !.ReferenceNumber = 245397, !.Amount = 2721780]

RecCredit ==
    [DemoRecord EXCEPT !.Indicator = Credit, !.TransactionCode = "50", !.Amount = 1210000]

RecCreditMills ==
    [DemoRecord EXCEPT !.Indicator = Credit, !.TransactionCode = "50", !.Amount = 4025005]

RecBadIndicator == [DemoRecord EXCEPT !.Indicator = "XX", !.Amount = 120000]

RecBadBSB == [DemoRecord EXCEPT !.Indicator = Debit, !.BSBNumber = "182222", !.Amount = 120000]

\* a debit whose stored amount is below zero: IsValid does not look at Amount
RecNegative == [DemoRecord EXCEPT !.Indicator = Debit, !.Amount = -500000]

\* a record whose text is wider than its columns, with blanks around it
WideRecord ==
    [RecDebit EXCEPT !.AccountNumber = "1234567890", !.ChequeNumber = " 12 "]

Records ==
    {RecDebit, RecCredit, RecCreditMills, RecBadIndicator, RecBadBSB, RecNegative,
     WideRecord}

\* a batch of NewBatch with its header assigned
DemoBatch ==
    [NewBatch EXCEPT !.BatchHeader.BSBNumber = "182-222",
                     !.BatchHeader.AccountNumber = "123456789",
                     !.BatchHeader.AccountName = "DEMO ACCOUNT NUMBER 2",
                     !.BatchHeader.Amount = 426320,
                     !.BatchHeader.Indicator = Credit]

\* the batch lists callers assign to w.Batch: nil, or one literal Batch{}
BatchLists == {<<>>, <<ZeroBatch>>}

RECURSIVE CountRecords(_)
CountRecords(batches) ==
    IF Len(batches) = 0 THEN 0
    ELSE Len(Head(batches).Records) + CountRecords(Tail(batches))

\* the batches and the records of a batch list, counted together
Size(batches) == Len(batches) + CountRecords(batches)

Init ==
    /\ w = NewWriter
    /\ wr = NewBufWriter
    /\ down = FALSE
    /\ pc = "build"
    /\ writes = 0
    /\ last = NoCall
    /\ rd = NoReader
    /\ codec = NoCodec

\* w.OmitBatchTotals = true
SetOmitBatchTotals ==
    /\ pc = "build" /\ ~w.OmitBatchTotals
    /\ w' = [w EXCEPT !.OmitBatchTotals = TRUE]
    /\ UNCHANGED <<wr, down, pc, writes, last, rd, codec>>

\* w.CRLFLineEndings = true
SetCRLFLineEndings ==
    /\ pc = "build" /\ ~w.CRLFLineEndings
    /\ w' = [w EXCEPT !.CRLFLineEndings = TRUE]
    /\ UNCHANGED <<wr, down, pc, writes, last, rd, codec>>

\* w.Batch = bs, before anything is put into the list NewWriter made
SetBatch(bs) ==
    /\ pc = "build" /\ w.Batch = NewWriter.Batch
    /\ w' = [w EXCEPT !.Batch = bs]
    /\ UNCHANGED <<wr, down, pc, writes, last, rd, codec>>

\* b := NewBatch(); b.BatchHeader.BSBNumber = ...; w.Batch = append(w.Batch, b)
AppendBatch ==
    /\ pc = "build" /\ Size(w.Batch) < MaxSize
    /\ w' = [w EXCEPT !.Batch = Append(@, DemoBatch)]
    /\ UNCHANGED <<wr, down, pc, writes, last, rd, codec>>

\* w.Batch[k].Records = append(w.Batch[k].Records, r), k the last batch
AppendRecord(r) ==
    /\ pc = "build" /\ Len(w.Batch) > 0 /\ Size(w.Batch) < MaxSize
    /\ w' = [w EXCEPT !.Batch[Len(w.Batch)].Records = Append(@, r)]
    /\ UNCHANGED <<wr, down, pc, writes, last, rd, codec>>

\* what a call of w.Write() does
CallWrite ==
    /\ \E res \in {WriterWrite(w)} :
           /\ w' = [w EXCEPT !.FileTrailer = res.ft, !.Batch = res.Batch]
           /\ wr' = BufWriteAll(wr, res.chunks, down)
           /\ last' = [op |-> "Write", err |-> res.err, pre |-> w, wrBefore |-> wr,
                       chunks |-> res.chunks, trailers |-> res.trailers]
    /\ pc' = "run"
    /\ writes' = writes + 1
    /\ UNCHANGED <<down, rd, codec>>

\* what a call of w.Flush(), which returns nothing, does
CallFlush ==
    /\ wr' = BufFlush(wr, down)
    /\ last' = [op |-> "Flush", err |-> NoResult, pre |-> w, wrBefore |-> wr,
                chunks |-> <<>>, trailers |-> <<>>]
    /\ UNCHANGED <<w, down, pc, writes, rd, codec>>

\* w.Write()
Write ==
    /\ writes < MaxWrites
    /\ last.op \in {"none", "Write"}
    /\ CallWrite

\* w.Flush()
Flush ==
    /\ last.op = "Write" /\ writes = 1
    /\ CallFlush

\* NewReader(&buf).ReadAll(), buf holding the bytes the Writer's io.Writer received
ReaderReadAll ==
    /\ last.op = "Flush" /\ ~rd.ran
    /\ \E got \in {ReadAll(NewReader, wr.sink)} :
           rd' = [r |-> got.r, err |-> got.err, rest |-> got.rest, ran |-> TRUE]
    /\ UNCHANGED <<w, wr, down, pc, writes, last, codec>>

Next ==
    \/ SetOmitBatchTotals
    \/ SetCRLFLineEndings
    \/ \E bs \in BatchLists : SetBatch(bs)
    \/ AppendBatch
    \/ \E r \in Records : AppendRecord(r)
    \/ Write
    \/ Flush
    \/ ReaderReadAll

Spec == Init /\ [][Next]_vars

-----------------------------------------------------------------------------
(* The codec on its own: a value of one of the five kinds is written to a  *)
(* line, the line may change its length, and the Read method of the kind   *)
(* is run on it, on a receiver that is zero or already holds a value.      *)

\* the most bytes a line loses or gains between Write and Read
MaxResize == 2

Day == [y |-> 2016, m |-> 2, d |-> 29, h |-> 0]

DemoFileHeader ==
    [recordType |-> 0, CustomerNumber |-> "00123456", CustomerName |-> "ABC PTY LIMITED",
     RemitterName |-> "MACQUARIE BANK", FileCreated |-> Day, ProcessingDate |-> Day,
     Description |-> "ACCOUNT TRANSACTIONS"]

\* a header with nothing in the two name columns
BareFileHeader == [DemoFileHeader EXCEPT !.CustomerName = "", !.RemitterName = ""]

DemoBatchTrailer ==
    [NewBatch.BatchTrailer EXCEPT
        !.BSBNumber = "182-222", !.AccountNumber = "123456789",
        !.AccountName = "DEMO ACCOUNT NUMBER 2", !.TransactionDate = Day,
        !.Amount = 817180, !.Indicator = Credit, !.BatchType = BatchTXN,
        !.ReferenceNumber = 3, !.TotalDebitTransactions = 2,
        !.TotalCreditTransactions = 2, !.TotalDebitAmount = 2841780,
        !.TotalCreditAmount = 3658960]

DemoFileTrailer ==
    [NewWriter.FileTrailer EXCEPT
        !.CustomerNumber = "00123456", !.CustomerName = "ABC PTY LIMITED",
        !.TotalDebitTransactions = 2, !.TotalCreditTransactions = 2,
        !.TotalDebitAmount = 2841780, !.TotalCreditAmount = 3658960]

\* a record that fills every column
FullRecord ==
    [recordType |-> 2, BSBNumber |-> "032-000", AccountNumber |-> "987654321",
     AccountName |-> "THE LONGEST ACCOUNT NAME OF ALL 35C",
     TransactionDate |-> Day, Amount |-> 2000000000, Indicator |-> Credit,
     TransactionCode |-> "50",
     Description |-> "A DESCRIPTION  THAT IS FORTY CHARS LONG.",
     ReferenceNumber |-> 1234567890, SecondaryReferenceNumber |-> "SECONDARY1",
     ChequeNumber |-> "CHQ00001"]

\* the values the codec is run on, by kind
Values ==
    [FileHeader   |-> {DemoFileHeader, BareFileHeader, NewWriter.FileHeader},
     BatchHeader  |-> {DemoBatch.BatchHeader, NewBatch.BatchHeader, ZeroBatchHeader},
     Record       |-> Records \cup {FullRecord, [RecDebit EXCEPT !.TransactionDate = Day]},
     BatchTrailer |-> {DemoBatchTrailer, ZeroBatchTrailer},
     FileTrailer  |-> {DemoFileTrailer, ZeroFileTrailer}]

Kinds == DOMAIN Values

\* the receivers Read is called on, by kind: a zero value, or one in use
Receivers ==
    [FileHeader   |-> {ZeroFileHeader, DemoFileHeader},
     BatchHeader  |-> {ZeroBatchHeader, DemoBatch.BatchHeader},
     Record       |-> {ZeroRecord, FullRecord},
     BatchTrailer |-> {ZeroBatchTrailer, DemoBatchTrailer},
     FileTrailer  |-> {ZeroFileTrailer, DemoFileTrailer}]

\* the line terminators
Terminators == {"\n", "\r\n"}

\* the line the Write method of a kind makes of a value
WriteOf(kind, v) ==
    CASE kind = "FileHeader"   -> FileHeaderWrite(v)
      [] kind = "BatchHeader"  -> BatchHeaderWrite(v)
      [] kind = "Record"       -> RecordWrite(v)
      [] kind = "BatchTrailer" -> BatchTrailerWrite(v)
      [] kind = "FileTrailer"  -> FileTrailerWrite(v)

\* what the Read method of a kind makes of a line, on the receiver recv
ReadOf(kind, recv, l) ==
    CASE kind = "FileHeader"   -> FileHeaderRead(recv, l)
      [] kind = "BatchHeader"  -> BatchHeaderRead(recv, l)
      [] kind = "Record"       -> RecordRead(recv, l)
      [] kind = "BatchTrailer" -> BatchTrailerRead(recv, l)
      [] kind = "FileTrailer"  -> FileTrailerRead(recv, l)

InitCodec == Init

\* v.Write(&buf), then the terminator
CodecWrite(kind, v, term) ==
    /\ codec' = [NoCodec EXCEPT !.kind = kind, !.val = v, !.term = term,
                                !.line = WriteOf(kind, v) \o term]
    /\ UNCHANGED <<w, wr, down, pc, writes, last, rd>>

\* the line loses its last n bytes
Shorten(n) ==
    /\ codec.kind # "none" /\ codec.read = "none" /\ ~codec.resized
    /\ codec' = [codec EXCEPT !.resized = TRUE,
                              !.line = SubSeq(@, 1, Len(@) - n)]
    /\ UNCHANGED <<w, wr, down, pc, writes, last, rd>>

\* the line gains n blanks before its terminator
Lengthen(n) ==
    /\ codec.kind # "none" /\ codec.read = "none" /\ ~codec.resized
    /\ codec' = [codec EXCEPT !.resized = TRUE,
                              !.line = SubSeq(@, 1, Len(@) - Len(codec.term))
                                           \o spaces(n) \o codec.term]
    /\ UNCHANGED <<w, wr, down, pc, writes, last, rd>>

\* recv.Read(line), recv of the kind the line was written of
CodecRead(kind, recv) ==
    /\ codec.kind = kind /\ codec.read = "none"
    /\ \E res \in {ReadOf(kind, recv, codec.line)} :
           codec' = [codec EXCEPT !.read = kind, !.recv = recv,
                                  !.err = res.err, !.got = res.v]
    /\ UNCHANGED <<w, wr, down, pc, writes, last, rd>>

NextCodec ==
    \/ \E kind \in Kinds : \E v \in Values[kind] : \E term \in Terminators :
           CodecWrite(kind, v, term)
    \/ \E n \in 1..MaxResize : Shorten(n)
    \/ \E n \in 1..MaxResize : Lengthen(n)
    \/ \E kind \in Kinds : \E recv \in Receivers[kind] : CodecRead(kind, recv)

SpecCodec == InitCodec /\ [][NextCodec]_vars

-----------------------------------------------------------------------------
(* The Writer over an io.Writer that may fail: a Writer that is built      *)
(* already is written, flushed and asked for its error, in any order.      *)

\* the most Write calls made on the Writer
MaxIOWrites == 3

\* a Writer whose one batch holds one record
SmallWriter ==
    [NewWriter EXCEPT !.Batch = <<[DemoBatch EXCEPT !.Records = <<RecDebit>>]>>]

\* a Writer whose Write makes more bytes than two thirds of the buffer holds
LargeWriter ==
    [NewWriter EXCEPT
        !.Batch = [k \in 1..4 |-> [DemoBatch EXCEPT !.Records = <<RecDebit, RecCredit>>]]]

InitIO ==
    /\ w \in {SmallWriter, LargeWriter}
    /\ wr = NewBufWriter
    /\ down = FALSE
    /\ pc = "run"
    /\ writes = 0
    /\ last = NoCall
    /\ rd = NoReader
    /\ codec = NoCodec

\* the underlying io.Writer starts to fail
SinkFails ==
    /\ ~down
    /\ down' = TRUE
    /\ UNCHANGED <<w, wr, pc, writes, last, rd, codec>>

\* the underlying io.Writer works again
SinkRecovers ==
    /\ down
    /\ down' = FALSE
    /\ UNCHANGED <<w, wr, pc, writes, last, rd, codec>>

\* w.Write(), at any time
IOWrite == writes < MaxIOWrites /\ CallWrite

\* w.Flush(), at any time
IOFlush == CallFlush

\* w.Error(): the error of w.wr.Write(nil)
IOError ==
    /\ wr' = BufWrite(wr, "", down)
    /\ last' = [op |-> "Error", err |-> wr'.err, pre |-> w, wrBefore |-> wr,
                chunks |-> <<>>, trailers |-> <<>>]
    /\ UNCHANGED <<w, down, pc, writes, rd, codec>>

NextIO ==
    \/ SinkFails
    \/ SinkRecovers
    \/ IOWrite
    \/ IOFlush
    \/ IOError

SpecIO == InitIO /\ [][NextIO]_vars

-----------------------------------------------------------------------------
(* The Reader over any text: lines of every kind, in any order, are put    *)
(* into the io.Reader, then ReadAll reads them one turn of its loop at a   *)
(* time.                                                                   *)

\* the most lines in the text
MaxLines == 3

\* the lines the text is made of, each with its terminator
Line0  == FileHeaderWrite(DemoFileHeader) \o "\n"
Line0B == FileHeaderWrite(BareFileHeader) \o "\r\n"
Line1  == BatchHeaderWrite(DemoBatch.BatchHeader) \o "\n"
Line2  == RecordWrite(RecDebit) \o "\n"
Line2BadIndicator == RecordWrite(RecBadIndicator) \o "\n"
Line2BadBSB == RecordWrite(RecBadBSB) \o "\r\n"
Line2Short == "2 NOT A RECORD\n"
Line7  == BatchTrailerWrite(DemoBatchTrailer) \o "\n"
Line7Short == "7 NOT A TRAILER\n"
Line9  == FileTrailerWrite(DemoFileTrailer) \o "\n"
Line5  == "5" \o spaces(169) \o "\n"

Lines ==
    {Line0, Line0B, Line1, Line2, Line2BadIndicator, Line2BadBSB, Line2Short, Line7,
     Line7Short, Line9, Line5}

\* a Reader made by NewReader over an empty text: rest is the text not yet
\* consumed, line the line the last turn read, prev the Reader as that turn
\* met it, headers the number of '0' lines read with a nil error, first the
\* FileHeader the first of them left
NoInput ==
    [r |-> NewReader, err |-> NoError, rest |-> "", ran |-> FALSE, text |-> "",
     lines |-> 0, started |-> FALSE, line |-> "", prev |-> NewReader, headers |-> 0,
     first |-> ZeroFileHeader]

InitReader ==
    /\ w = NewWriter
    /\ wr = NewBufWriter
    /\ down = FALSE
    /\ pc = "build"
    /\ writes = 0
    /\ last = NoCall
    /\ rd = NoInput
    /\ codec = NoCodec

\* the io.Reader handed to NewReader holds one more line
FeedLine(l) ==
    /\ ~rd.started /\ rd.lines < MaxLines
    /\ rd' = [rd EXCEPT !.rest = @ \o l, !.text = @ \o l, !.lines = @ + 1]
    /\ UNCHANGED <<w, wr, down, pc, writes, last, codec>>

\* one turn of the loop of ReadAll: readRecordOrHeaderOrTrailer, then ReadAll
\* returns nil on io.EOF, returns the error on any other, and goes on on nil
readRecordOrHeaderOrTrailer ==
    /\ ~rd.ran
    /\ IF rd.rest = ""
       THEN rd' = [rd EXCEPT !.started = TRUE, !.ran = TRUE, !.err = NoError,
                             !.line = "", !.prev = rd.r]
       ELSE \E n \in {LineLen(rd.rest)} :
                \E got \in {Dispatch(rd.r, Char(rd.rest, 1), SubSeq(rd.rest, 1, n))} :
                    rd' = [rd EXCEPT
                              !.started = TRUE,
                              !.r = got.r,
                              !.err = got.err,
                              !.ran = got.err # NoError,
                              !.rest = SubSeq(@, n + 1, Len(@)),
                              !.line = SubSeq(rd.rest, 1, n),
                              !.prev = rd.r,
                              !.headers = IF Char(rd.rest, 1) = "0" /\ got.err = NoError
                                          THEN @ + 1 ELSE @,
                              !.first = IF /\ Char(rd.rest, 1) = "0" /\ got.err = NoError
                                           /\ rd.headers = 0
                                        THEN got.r.FileHeader ELSE @]
    /\ UNCHANGED <<w, wr, down, pc, writes, last, codec>>

NextReader ==
    \/ \E l \in Lines : FeedLine(l)
    \/ readRecordOrHeaderOrTrailer

SpecReader == InitReader /\ [][NextReader]_vars

-----------------------------------------------------------------------------
(* What the claims speak of.                                               *)

\* the lines a Write call emitted, in order, without their terminators
Emitted(call) == SelectSeq(call.chunks, LAMBDA c : c \notin {"\r", "\n"})

\* the bytes a Write call handed to w.wr
RECURSIVE Join(_)
Join(chunks) == IF Len(chunks) = 0 THEN "" ELSE Head(chunks) \o Join(Tail(chunks))

\* the number of records of recs with indicator ind, and the sum of their amounts
RECURSIVE CountOf(_, _)
CountOf(recs, ind) ==
    IF Len(recs) = 0 THEN 0
    ELSE (IF Head(recs).Indicator = ind THEN 1 ELSE 0) + CountOf(Tail(recs), ind)

RECURSIVE SumOf(_, _)
SumOf(recs, ind) ==
    IF Len(recs) = 0 THEN 0
    ELSE (IF Head(recs).Indicator = ind THEN Head(recs).Amount ELSE 0)
         + SumOf(Tail(recs), ind)

\* all the records of a batch list, in order
RECURSIVE AllRecords(_)
AllRecords(batches) ==
    IF Len(batches) = 0 THEN <<>>
    ELSE Head(batches).Records \o AllRecords(Tail(batches))

\* a record the spec calls valid: indicator DR or CR, routing number NNN-NNN
WellFormed(r) ==
    /\ r.Indicator \in {"DR", "CR"}
    /\ Len(r.BSBNumber) = 7
    /\ \A i \in {1, 2, 3, 5, 6, 7} : Char(r.BSBNumber, i) \in DigitSet
    /\ Char(r.BSBNumber, 4) = "-"

AllWellFormed(recs) == \A i \in 1..Len(recs) : WellFormed(recs[i])

\* the place among the emitted lines of the header line of batch k (from 1)
RECURSIVE HeaderIndex(_, _)
HeaderIndex(batches, k) ==
    IF k = 1 THEN 2
    ELSE HeaderIndex(batches, k - 1) + Len(batches[k - 1].Records) + 2

\* the place among the emitted lines of the trailer line of batch k
TrailerIndex(batches, k) == HeaderIndex(batches, k) + Len(batches[k].Records) + 1

\* an amount as a line carries it: in the two-digit rendering of the format
Rendered(m) == RoundBankCents(m) * 10

\* an amount with at most two fraction digits
TwoDecimal(m) == m % 10 = 0

\* the four totals of a trailer
Totals(t) ==
    <<t.TotalDebitTransactions, t.TotalCreditTransactions,
      t.TotalDebitAmount, t.TotalCreditAmount>>

\* the sum, field by field, of the totals of a list of batch trailers
RECURSIVE SumTotals(_)
SumTotals(ts) ==
    IF Len(ts) = 0 THEN <<0, 0, 0, 0>>
    ELSE LET h == Totals(Head(ts))
             r == SumTotals(Tail(ts))
         IN  <<h[1] + r[1], h[2] + r[2], h[3] + r[3], h[4] + r[4]>>

C2_FileTotals ==
    (/\ last.op = "Write" /\ last.err = NoError
     /\ Totals(last.pre.FileTrailer) = <<0, 0, 0, 0>>) =>
        /\ Len(last.trailers) = Len(last.pre.Batch)
        /\ Totals(w.FileTrailer) = SumTotals(last.trailers)
        /\ last.pre.OmitBatchTotals =>
               /\ Totals(w.FileTrailer) = <<0, 0, 0, 0>>
               /\ \A k \in 1..Len(last.trailers) :
                      Totals(last.trailers[k]) = <<0, 0, 0, 0>>
        /\ ~last.pre.OmitBatchTotals =>
               LET recs == AllRecords(last.pre.Batch)
               IN  Totals(w.FileTrailer) =
                       <<CountOf(recs, "DR"), CountOf(recs, "CR"),
                         SumOf(recs, "DR"), SumOf(recs, "CR")>>

\* a nil Write over two batches with records, totals suppressed
C2_Witness ==
    /\ last.op = "Write" /\ last.err = NoError
    /\ Totals(last.pre.FileTrailer) = <<0, 0, 0, 0>>
    /\ last.pre.OmitBatchTotals
    /\ Len(last.pre.Batch) = 2
    /\ Len(AllRecords(last.pre.Batch)) > 0

\* C4: Write on a Writer with no batch returns ErrInsufficientBatches, puts no
\* byte into the buffer or the sink and leaves the file trailer as it was.
C4_NoBatches ==
    (last.op = "Write" /\ Len(last.pre.Batch) = 0) =>
        /\ last.err = ErrInsufficientBatches
        /\ last.chunks = <<>>
        /\ wr = last.wrBefore
        /\ w = last.pre

\* a second Write on a Writer with no batch
C4_Witness ==
    /\ last.op = "Write" /\ Len(last.pre.Batch) = 0 /\ writes = 2

\* the batch and the place in it (both from 1) of the first record of batches,
\* from batch k on, that is not well formed; <<0, 0>> when there is none
RECURSIVE FirstInvalid(_, _)
FirstInvalid(batches, k) ==
    IF k > Len(batches) THEN <<0, 0>>
    ELSE LET recs == batches[k].Records
             bad  == {i \in 1..Len(recs) : ~WellFormed(recs[i])}
         IN  IF bad = {} THEN FirstInvalid(batches, k + 1)
             ELSE <<k, CHOOSE i \in bad : \A j \in bad : i <= j>>

\* C5: Write fails at the first record, in batch then record order, that is
\* not well formed, with the ErrInvalidRecord error naming the record's index
\* in its batch, whatever OmitBatchTotals is; the lines before that record
\* are in the output, that record's line and all later ones are not; and
\* Write returns nil when every record is well formed.
C5_FirstInvalidRecord ==
    (last.op = "Write" /\ Len(last.pre.Batch) > 0) =>
        LET bad   == FirstInvalid(last.pre.Batch, 1)
            lines == Emitted(last)
            recs  == last.pre.Batch[bad[1]].Records
            hdr   == HeaderIndex(last.pre.Batch, bad[1])
        IN  /\ bad = <<0, 0>> => last.err = NoError
            /\ bad # <<0, 0>> =>
                   /\ last.err = "txn: Invalid Record can't be written (record "
                                     \o Itoa(bad[2] - 1) \o ")"
                   /\ Len(lines) = hdr + bad[2] - 1
                   /\ \A i \in 1..(bad[2] - 1) : lines[hdr + i] = RecordWrite(recs[i])
                   /\ \A i \in 1..Len(lines) : Char(lines[i], 1) \notin {"9"}
            /\ wr.err = NoError =>
                   wr.sink \o wr.buf =
                       last.wrBefore.sink \o last.wrBefore.buf \o Join(last.chunks)

\* a Write stopped by the second record of a batch
C5_Witness ==
    /\ last.op = "Write" /\ Len(last.pre.Batch) > 0
    /\ FirstInvalid(last.pre.Batch, 1)[2] = 2
    /\ last.err # NoError

\* the tag each line of a list of lines starts with
TagsOf(lines) == [i \in 1..Len(lines) |-> Char(lines[i], 1)]

\* the tags of the lines of a list of batches: "1", a "2" per record, "7"
RECURSIVE BatchTags(_)
BatchTags(batches) ==
    IF Len(batches) = 0 THEN <<>>
    ELSE <<"1">> \o [i \in 1..Len(Head(batches).Records) |-> "2"] \o <<"7">>
             \o BatchTags(Tail(batches))

\* a record as a Reader returns it: the tag set, the date without its time of day
AsRead(r) == [r EXCEPT !.recordType = 2, !.TransactionDate.h = 0]

\* the Writer of the end-to-end run: batches of NewBatch, at least one, every
\* record well formed with a non-negative amount of at most two fraction digits
C3_Writer ==
    /\ rd.ran
    /\ Len(w.Batch) >= 1
    /\ \A k \in 1..Len(w.Batch) :
           /\ w.Batch[k].BatchHeader.recordType = NewBatch.BatchHeader.recordType
           /\ w.Batch[k].BatchTrailer.recordType = NewBatch.BatchTrailer.recordType
    /\ \A i \in 1..Len(AllRecords(w.Batch)) :
           LET r == AllRecords(w.Batch)[i]
           IN  WellFormed(r) /\ r.Amount >= 0 /\ TwoDecimal(r.Amount)

\* a text without blanks around it that fits a column of n characters
Fits(str, n) == Len(str) <= n /\ TrimSpace(str) = str

\* a record whose texts all fit their columns
FitsColumns(r) ==
    /\ Fits(r.BSBNumber, 7) /\ Fits(r.AccountNumber, 9) /\ Fits(r.AccountName, 35)
    /\ Fits(r.Indicator, 2) /\ Fits(r.TransactionCode, 2) /\ Fits(r.Description, 40)
    /\ Fits(r.SecondaryReferenceNumber, 10) /\ Fits(r.ChequeNumber, 8)

\* the record got is the record r that was written: all of it when its texts
\* fit their columns, and by what tells the records apart when they do not
SameRecord(got, r) ==
    IF FitsColumns(r) THEN got = AsRead(r)
    ELSE /\ got.BSBNumber = r.BSBNumber /\ got.Indicator = r.Indicator
         /\ got.Amount = r.Amount /\ got.ReferenceNumber = r.ReferenceNumber
         /\ got.TransactionCode = r.TransactionCode

\* what ReadAll gave back of the run, but for the file trailer totals
C3_ReadBack ==
    /\ rd.err = NoError
    /\ rd.rest = ""
    /\ Len(rd.r.Batch) = Len(w.Batch)
    /\ \A k \in 1..Len(w.Batch) :
           LET got == rd.r.Batch[k]
               t   == got.BatchTrailer
           IN  /\ Len(got.Records) = Len(w.Batch[k].Records)
               /\ \A i \in 1..Len(got.Records) :
                      SameRecord(got.Records[i], w.Batch[k].Records[i])
               /\ t.Amount = IF t.TotalCreditAmount >= t.TotalDebitAmount
                             THEN t.TotalCreditAmount - t.TotalDebitAmount
                             ELSE t.TotalDebitAmount - t.TotalCreditAmount

\* the counts and sums of the DR and CR records the Writer holds
C3_Written ==
    LET recs == AllRecords(w.Batch)
    IN  <<CountOf(recs, "DR"), CountOf(recs, "CR"), SumOf(recs, "DR"), SumOf(recs, "CR")>>

\* C3 as the spec states it: Write, Flush, then ReadAll over the bytes gives
\* nil, the batches and records written, in order, file trailer totals that
\* are the counts and sums of the DR and CR records written, and batch
\* trailers whose Amount is the absolute difference of their two sums.
C3_AsStated ==
    C3_Writer => (C3_ReadBack /\ Totals(rd.r.FileTrailer) = C3_Written)

\* C3, amended: the same, with the file trailer totals being the counts and
\* sums of the records written when OmitBatchTotals is false, and all zero
\* when it is true.
C3_EndToEnd ==
    C3_Writer =>
        /\ C3_ReadBack
        /\ ~w.OmitBatchTotals => Totals(rd.r.FileTrailer) = C3_Written
        /\ w.OmitBatchTotals => Totals(rd.r.FileTrailer) = <<0, 0, 0, 0>>

\* a run read back with a debit larger than the credit next to it in the batch
C3_Witness ==
    /\ C3_Writer /\ ~w.OmitBatchTotals /\ ~w.CRLFLineEndings
    /\ Len(w.Batch) = 1
    /\ C3_Written[1] = 1 /\ C3_Written[2] = 1

\* C10: the lines of a Write that returns nil start, in order, with 0, then
\* for each batch 1, a 2 per record and 7, then 9, for any Writer the public
\* API builds, batches not made by NewBatch included.
C10_LineOrder ==
    (last.op = "Write" /\ last.err = NoError) =>
        TagsOf(Emitted(last)) = <<"0">> \o BatchTags(last.pre.Batch) \o <<"9">>

\* a line written, left as it was, and read back
RoundTrip(kind) == codec.kind = kind /\ codec.read = kind /\ ~codec.resized

\* a file header the spec calls well formed
WellFormedFileHeader(h) ==
    /\ Fits(h.CustomerNumber, 8) /\ Fits(h.CustomerName, 35)
    /\ Fits(h.RemitterName, 19) /\ Fits(h.Description, 20)
    /\ h.FileCreated.h = 0 /\ h.ProcessingDate.h = 0

\* C6: the line FileHeader.Write makes of a well-formed file header, with a
\* terminator, is taken by FileHeader.Read, which recovers CustomerNumber,
\* CustomerName, RemitterName, FileCreated, ProcessingDate and Description
\* as they were written.
C6_FileHeaderRoundTrip ==
    (RoundTrip("FileHeader") /\ WellFormedFileHeader(codec.val)) =>
        /\ codec.err = NoError
        /\ codec.got.CustomerNumber = codec.val.CustomerNumber
        /\ codec.got.CustomerName = codec.val.CustomerName
        /\ codec.got.RemitterName = codec.val.RemitterName
        /\ codec.got.FileCreated = codec.val.FileCreated
        /\ codec.got.ProcessingDate = codec.val.ProcessingDate
        /\ codec.got.Description = codec.val.Description

\* a record within the terms of the record round trip
WellFormedRecord(r) ==
    /\ WellFormed(r)
    /\ Fits(r.BSBNumber, 7) /\ Fits(r.AccountNumber, 9) /\ Fits(r.AccountName, 35)
    /\ Fits(r.Indicator, 2) /\ Fits(r.TransactionCode, 2) /\ Fits(r.Description, 40)
    /\ Fits(r.SecondaryReferenceNumber, 10) /\ Fits(r.ChequeNumber, 8)
    /\ r.Amount >= 0 /\ TwoDecimal(r.Amount)
    /\ r.ReferenceNumber >= 0 /\ Len(Itoa(r.ReferenceNumber)) <= 10
    /\ r.TransactionDate.h = 0

\* C7: the line Record.Write makes of a valid record whose texts fit their
\* columns, with a non-negative amount of at most two fraction digits, a
\* reference number of at most 10 digits and a date without time of day, is
\* read by Record.Read, after "\n" or "\r\n", with a nil error and all eleven
\* fields as written.
C7_RecordRoundTrip ==
    (RoundTrip("Record") /\ WellFormedRecord(codec.val)) =>
        /\ codec.err = NoError
        /\ \A f \in DOMAIN ZeroRecord \ {"recordType"} : codec.got[f] = codec.val[f]

\* the record that fills every column, read back from a "\r\n" line into a
\* receiver that held another record
C7_Witness ==
    /\ RoundTrip("Record") /\ WellFormedRecord(codec.val)
    /\ codec.val = FullRecord /\ codec.term = "\r\n" /\ codec.recv # ZeroRecord

\* the error of each Read for a line of the wrong length, and the two lengths
\* each Read takes
ErrorOf ==
    [FileHeader |-> ErrBadFileHeader, BatchHeader |-> ErrBadBatchHeader,
     Record |-> ErrBadRecord, BatchTrailer |-> ErrBadBatchTrailer,
     FileTrailer |-> ErrBadFileTrailer]

LengthsOf ==
    [FileHeader |-> {171, 172}, BatchHeader |-> {171, 172}, Record |-> {169, 170},
     BatchTrailer |-> {171, 172}, FileTrailer |-> {171, 172}]

\* C8: each of the five Read methods takes a line only when its length is the
\* width of its kind plus 1 or plus 2; on a line of any other length it
\* returns the error of its kind and leaves the receiver as it was.
C8_ReadLength ==
    codec.read # "none" =>
        /\ Len(codec.line) \notin LengthsOf[codec.read] =>
               /\ codec.err = ErrorOf[codec.read]
               /\ codec.got = codec.recv
        /\ Len(codec.line) \in LengthsOf[codec.read] =>
               codec.err \in {NoError} \cup
                   (IF codec.read = "Record" THEN {ErrInvalidRecord} ELSE {})

\* a Read turned down a line one byte too long, on a receiver holding a value
C8_Witness ==
    /\ codec.read = "BatchTrailer" /\ codec.recv = DemoBatchTrailer
    /\ Len(codec.line) = 173
    /\ codec.err = ErrBadBatchTrailer

\* C9: once a write to the underlying io.Writer has failed, no further byte
\* reaches it, every later Write and Flush returns that error, and Error
\* reports it.
C9_StickyErrors ==
    last.wrBefore.err # NoError =>
        /\ wr.sink = last.wrBefore.sink
        /\ last.op \in {"Write", "Flush", "Error"} => last.err = last.wrBefore.err

\* the widths of the lines Write makes of batches from batch k on: 170 for a
\* batch header and a batch trailer, 168 for each record between them
RECURSIVE BatchWidths(_, _)
BatchWidths(batches, k) ==
    IF k > Len(batches) THEN <<>>
    ELSE <<170>> \o [i \in 1..Len(batches[k].Records) |-> 168] \o <<170>>
         \o BatchWidths(batches, k + 1)

\* the widths of the lines of a whole file
FileWidths(batches) == <<170>> \o BatchWidths(batches, 1) \o <<170>>

\* the writes of a Write call, in threes when a "\r" goes with each line and
\* in twos when not
Stride(call) == IF call.pre.CRLFLineEndings THEN 3 ELSE 2

\* C11: every line a Write emits, whether it returns nil or gives up at an
\* invalid record, is 170 bytes wide (168 for a Transaction Record) whatever
\* its fields hold, and is followed by "\r\n" when CRLFLineEndings is true and
\* by "\n" alone when it is false.
C11_LineFraming ==
    last.op = "Write" =>
        LET c == last.chunks
            n == Stride(last)
            widths == FileWidths(last.pre.Batch)
        IN  /\ Len(c) % n = 0
            /\ Len(c) \div n <= Len(widths)
            /\ last.err = NoError => Len(c) \div n = Len(widths)
            /\ \A j \in 1..Len(c) :
                   IF j % n = 1 THEN Len(c[j]) = widths[(j + n - 1) \div n]
                   ELSE IF j % n = 2 /\ n = 3 THEN c[j] = "\r"
                   ELSE c[j] = "\n"

\* a file written with "\r\n" that holds a record wider than its columns
C11_Witness ==
    /\ last.op = "Write" /\ last.err = NoError /\ last.pre.CRLFLineEndings
    /\ \E i \in 1..Len(AllRecords(last.pre.Batch)) :
           AllRecords(last.pre.Batch)[i] = WideRecord

\* C12: after a Write that returns nil (every record passed IsValid), the
\* total debit amount and the total credit amount of every batch trailer and
\* of the file trailer, as set and as carried in the emitted trailer lines,
\* are not below zero.
C12_NonNegativeTotals ==
    (last.op = "Write" /\ last.err = NoError) =>
        LET lines == Emitted(last)
            ft    == FileTrailerRead(ZeroFileTrailer, lines[Len(lines)] \o "\n").v
        IN  /\ w.FileTrailer.TotalDebitAmount >= 0 /\ w.FileTrailer.TotalCreditAmount >= 0
            /\ ft.TotalDebitAmount >= 0 /\ ft.TotalCreditAmount >= 0
            /\ \A k \in 1..Len(last.pre.Batch) :
                   LET t == BatchTrailerRead(ZeroBatchTrailer,
                                lines[TrailerIndex(last.pre.Batch, k)] \o "\n").v
                   IN  /\ last.trailers[k].TotalDebitAmount >= 0
                       /\ last.trailers[k].TotalCreditAmount >= 0
                       /\ t.TotalDebitAmount >= 0 /\ t.TotalCreditAmount >= 0

\* the last turn of ReadAll read a line that starts with tag
TurnOn(tag) == rd.line # "" /\ Char(rd.line, 1) = tag

\* the text ReadAll has consumed
Consumed == SubSeq(rd.text, 1, Len(rd.text) - Len(rd.rest))

\* ReadAll run in one go over the whole text ends as the turns did
ReadAllAgrees ==
    rd.ran => ReadAll(NewReader, rd.text) = [r |-> rd.r, err |-> rd.err, rest |-> rd.rest]

\* C13: a Transaction Record line of the right size whose record is not
\* valid ends ReadAll with ErrInvalidRecord: the Reader is left as the line
\* met it (the record is in no batch), the text after the line is not
\* consumed, and ReadAll returns with that error; and every record in
\* Reader.Batch is valid in every state of the Reader.
C13_InvalidRecordAborts ==
    /\ \A k \in 1..Len(rd.r.Batch) : AllWellFormed(rd.r.Batch[k].Records)
    /\ ReadAllAgrees
    /\ (/\ TurnOn("2") /\ Len(rd.line) \in {169, 170}
        /\ ~WellFormed(RecordUnpack(rd.line))) =>
           /\ rd.ran /\ rd.err = ErrInvalidRecord
           /\ rd.r = rd.prev
           /\ rd.text = Consumed \o rd.rest
           /\ SubSeq(Consumed, Len(Consumed) - Len(rd.line) + 1, Len(Consumed)) = rd.line

\* an invalid record line met after a batch was opened, with a line after it
C13_Witness ==
    /\ rd.ran /\ rd.err = ErrInvalidRecord
    /\ rd.line \in {Line2BadIndicator, Line2BadBSB}
    /\ Len(rd.prev.Batch) = 1
    /\ rd.rest \in Lines

\* the errors readRecordOrHeaderOrTrailer can return
ReturnedErrors ==
    {NoError, ErrInvalidRecord, ErrBadFileHeader, ErrBadBatchHeader, ErrBadRecord,
     ErrBadBatchTrailer, ErrBadFileTrailer, ErrUnexpectedRecordType}

\* the last turn read a valid Transaction Record line of the right size
OnValidRecord ==
    /\ TurnOn("2") /\ Len(rd.line) \in {169, 170}
    /\ WellFormed(RecordUnpack(rd.line))

\* the last turn read a Batch Trailer line of the right size
OnBatchTrailer == TurnOn("7") /\ Len(rd.line) \in {171, 172}

\* the batches but the last are as the line met them
EarlierBatchesKept ==
    /\ Len(rd.r.Batch) = Len(rd.prev.Batch)
    /\ \A k \in 1..(Len(rd.r.Batch) - 1) : rd.r.Batch[k] = rd.prev.Batch[k]

\* C14: a valid Transaction Record line or a Batch Trailer line, of the
\* right size, read while Reader.Batch is empty ends the run in an index out
\* of range crash, which is no returned error; with a batch open there is no
\* crash, and the record is appended to the last batch, or the trailer set on
\* it, the other batches being left alone.
C14_OrderingPrecondition ==
    LET n == Len(rd.prev.Batch)
    IN  /\ ((OnValidRecord \/ OnBatchTrailer) /\ n = 0) =>
               /\ rd.ran /\ rd.err = PanicIndexOutOfRange
               /\ rd.err \notin ReturnedErrors
               /\ rd.r = rd.prev
        /\ rd.err = PanicIndexOutOfRange =>
               (Len(rd.r.Batch) = 0 /\ (OnValidRecord \/ OnBatchTrailer))
        /\ (OnValidRecord /\ n > 0) =>
               /\ rd.err = NoError /\ ~rd.ran
               /\ EarlierBatchesKept
               /\ rd.r.Batch[n] =
                      [rd.prev.Batch[n] EXCEPT
                          !.Records = Append(@, RecordUnpack(rd.line))]
        /\ (OnBatchTrailer /\ n > 0) =>
               /\ rd.err = NoError /\ ~rd.ran
               /\ EarlierBatchesKept
               /\ rd.r.Batch[n] =
                      [rd.prev.Batch[n] EXCEPT
                          !.BatchTrailer = BatchTrailerRead(ZeroBatchTrailer, rd.line).v]

\* a record line read after a file header and before any batch header
C14_Witness ==
    /\ rd.err = PanicIndexOutOfRange /\ rd.line = Line2 /\ rd.headers = 1

\* a record line and a trailer line read into the second of two batches
C14_Attached ==
    /\ Len(rd.r.Batch) = 2 /\ rd.err = NoError /\ (OnValidRecord \/ OnBatchTrailer)

\* C15: in a ReadAll run that returns nil, the File Header the Reader holds
\* is the one the first '0' line stored: no later '0' line has replaced it.
C15_SingleFileHeader ==
    (rd.ran /\ rd.err = NoError /\ rd.headers >= 1) => rd.r.FileHeader = rd.first

\* the records of recs before the first one that is not well formed
RECURSIVE ValidPrefix(_)
ValidPrefix(recs) ==
    IF Len(recs) = 0 \/ ~WellFormed(Head(recs)) THEN <<>>
    ELSE <<Head(recs)>> \o ValidPrefix(Tail(recs))

\* the records a Write call went through before it returned
Processed(call) == ValidPrefix(AllRecords(call.pre.Batch))

\* the counts and sums of the DR and CR records of recs
Contribution(recs) ==
    <<CountOf(recs, "DR"), CountOf(recs, "CR"), SumOf(recs, "DR"), SumOf(recs, "CR")>>

\* two lists of totals added, total by total
Plus(a, b) == <<a[1] + b[1], a[2] + b[2], a[3] + b[3], a[4] + b[4]>>

\* C16: after a Write call with OmitBatchTotals false, whether it returned
\* nil or gave up at an invalid record, each FileTrailer total is its value
\* before the call plus what the records gone through before the return add
\* to it, so that the totals of an earlier call, finished or not, are counted
\* again; with OmitBatchTotals true the totals are as before the call. The
\* other FileTrailer fields are as before, and the file trailer line of a
\* Write that returns nil carries the totals so reached.
C16_FileTrailerAccumulates ==
    last.op = "Write" =>
        LET before == Totals(last.pre.FileTrailer)
            after  == Totals(w.FileTrailer)
            lines  == Emitted(last)
        IN  /\ ~last.pre.OmitBatchTotals =>
                   after = Plus(before, Contribution(Processed(last)))
            /\ last.pre.OmitBatchTotals => w.FileTrailer = last.pre.FileTrailer
            /\ w.FileTrailer =
                   [last.pre.FileTrailer EXCEPT
                       !.TotalDebitTransactions = after[1],
                       !.TotalCreditTransactions = after[2],
                       !.TotalDebitAmount = after[3],
                       !.TotalCreditAmount = after[4]]
            /\ (last.err = NoError /\ w.FileTrailer.recordType = 9) =>
                   Totals(FileTrailerRead(ZeroFileTrailer, lines[Len(lines)] \o "\n").v)
                       = <<after[1], after[2], Rendered(after[3]), Rendered(after[4])>>

\* a Write tried again after it gave up at an invalid record that had valid
\* records before it
C16_Witness ==
    /\ last.op = "Write" /\ writes = 2 /\ last.err # NoError
    /\ ~last.pre.OmitBatchTotals
    /\ Len(Processed(last)) > 0
    /\ Totals(last.pre.FileTrailer) = Contribution(Processed(last))
    /\ Totals(w.FileTrailer) = Plus(Contribution(Processed(last)), Contribution(Processed(last)))

\* a second Write that returns nil, its file trailer line carrying both calls
C16_SecondWrite ==
    /\ last.op = "Write" /\ writes = 2 /\ last.err = NoError
    /\ ~last.pre.OmitBatchTotals
    /\ Len(Processed(last)) > 0

\* C17: a Write call, whether it returns nil or an error, leaves every batch
\* of Writer.Batch (header, records and trailer) as it was before the call;
\* the trailer values it computes (BSB, account number and account name of
\* the batch header, BatchType ST, the zero-based index of the batch as the
\* reference number) are in the trailer it encodes and in the emitted trailer
\* line only.
C17_BatchesUnchanged ==
    last.op = "Write" =>
        /\ w.Batch = last.pre.Batch
        /\ \A k \in 1..Len(last.trailers) :
               LET batch == last.pre.Batch[k]
                   set   == last.trailers[k]
                   lines == Emitted(last)
                   t     == BatchTrailerRead(ZeroBatchTrailer,
                                lines[TrailerIndex(last.pre.Batch, k)] \o "\n").v
               IN  /\ set.recordType = batch.BatchTrailer.recordType
                   /\ set.BSBNumber = batch.BatchHeader.BSBNumber
                   /\ set.AccountNumber = batch.BatchHeader.AccountNumber
                   /\ set.AccountName = batch.BatchHeader.AccountName
                   /\ set.BatchType = "ST" /\ set.ReferenceNumber = k - 1
                   /\ set.Indicator \in {"CR", "DR"}
                   /\ t.BSBNumber = batch.BatchHeader.BSBNumber
                   /\ t.AccountNumber = batch.BatchHeader.AccountNumber
                   /\ t.AccountName = batch.BatchHeader.AccountName
                   /\ t.BatchType = "ST" /\ t.ReferenceNumber = k - 1
                   /\ t.Indicator = set.Indicator

\* a Write that encoded, for the second of two batches, a trailer that is
\* not the trailer the batch holds
C17_Witness ==
    /\ last.op = "Write" /\ last.err = NoError
    /\ Len(last.trailers) = 2
    /\ last.pre.Batch[2].BatchHeader.BSBNumber = "182-222"
    /\ last.trailers[2] # last.pre.Batch[2].BatchTrailer
    /\ w.Batch[2].BatchTrailer = last.pre.Batch[2].BatchTrailer


=============================================================================
